---- MODULE Spec2Model ----
(***************************************************************************)
(* A model of backend/python/recommendation_engine.py: the state of one    *)
(* AnimeRecommendationEngine (anime_data, vectorizer, tfidf_matrix,        *)
(* kmeans), the pickled artifact at model_path, its public methods, and    *)
(* the Flask handlers that share the global engine between threads.        *)
(*                                                                         *)
(* Text is a sequence of words.  TF-IDF weights are kept in tenths and     *)
(* cosine similarities in thousandths, so all arithmetic is on integers.   *)
(***************************************************************************)
EXTENDS Integers, Sequences, FiniteSets, TLC

VARIABLES anime_data, vectorizer, tfidf_matrix, kmeans, disk, last,
          trainer, reader

vars == <<anime_data, vectorizer, tfidf_matrix, kmeans, disk, last,
          trainer, reader>>

(***************************************************************************)
(* Bounds of the model.                                                    *)
(***************************************************************************)
\* longest list of catalogue records posted for training
MaxLen == 2
\* largest limit passed to a ranking call
MaxLimit == 2
\* length of the one long list posted for training (long enough to cluster)
BigLen == 20
\* largest number of candidates passed to party_match
MaxCandidates == 2
\* watchlist ids are drawn from 1..MaxWatchId
MaxWatchId == 3

(***************************************************************************)
(* Python values.                                                          *)
(***************************************************************************)
None == [none |-> TRUE]

Min(a, b) == IF a <= b THEN a ELSE b

RECURSIVE Flatten(_)
\* ' '.join(list of strings), each string a sequence of words
Flatten(ss) == IF ss = <<>> THEN <<>> ELSE Head(ss) \o Flatten(Tail(ss))

SeqRange(s) == {s[i] : i \in 1..Len(s)}

\* dict.get(key, default)
Get(d, key, default) == IF key \in DOMAIN d THEN d[key] ELSE default

(***************************************************************************)
(* MOOD_KEYWORDS, in dictionary order.  A mood is its words (mood.split()) *)
(* and its keywords, each keyword a sequence of words.                     *)
(***************************************************************************)
MOOD_KEYWORDS ==
  << [mood |-> <<"rainy", "afternoon">>,
      keywords |-> << <<"slice", "of", "life">>, <<"drama">>, <<"melancholy">>,
                      <<"calm">>, <<"atmospheric">>, <<"emotional">> >>],
     [mood |-> <<"epic", "fight", "scenes">>,
      keywords |-> << <<"action">>, <<"shounen">>, <<"martial", "arts">>,
                      <<"superpowers">>, <<"battle">>, <<"tournament">> >>],
     [mood |-> <<"wholesome", "and", "cozy">>,
      keywords |-> << <<"slice", "of", "life">>, <<"comedy">>, <<"iyashikei">>,
                      <<"heartwarming">>, <<"friendship">>, <<"healing">> >>],
     [mood |-> <<"mind-bending", "thriller">>,
      keywords |-> << <<"psychological">>, <<"thriller">>, <<"mystery">>,
                      <<"suspense">>, <<"plot", "twist">>, <<"dark">> >>],
     [mood |-> <<"action-packed", "adventure">>,
      keywords |-> << <<"action">>, <<"adventure">>, <<"fantasy">>,
                      <<"isekai">>, <<"journey">>, <<"exploration">> >>],
     [mood |-> <<"emotional", "and", "deep">>,
      keywords |-> << <<"drama">>, <<"tragedy">>, <<"romance">>,
                      <<"psychological">>, <<"mature">>,
                      <<"character", "development">> >>],
     [mood |-> <<"high-budget", "pixel", "fights">>,
      keywords |-> << <<"action">>, <<"animation", "quality">>, <<"sakuga">>,
                      <<"mecha">>, <<"sci-fi">>, <<"fantasy">> >>],
     [mood |-> <<"romantic", "comedy">>,
      keywords |-> << <<"romance">>, <<"comedy">>, <<"school">>,
                      <<"slice", "of", "life">>, <<"heartwarming">>, <<"love">> >>],
     [mood |-> <<"dark", "and", "gritty">>,
      keywords |-> << <<"seinen">>, <<"dark">>, <<"psychological">>,
                      <<"horror">>, <<"mature">>, <<"violence">> >>],
     [mood |-> <<"nostalgic", "classic">>,
      keywords |-> << <<"classic">>, <<"retro">>, <<"90s">>, <<"80s">>,
                      <<"influential">>, <<"legendary">> >>] >>

(***************************************************************************)
(* Strings.  str.lower() and the substring test of Python's `in`, on the   *)
(* words the model's records and queries are written with.                 *)
(***************************************************************************)
Lower(w) ==
  CASE w = "Drift" -> "drift"
    [] w = "Quiet" -> "quiet"
    [] w = "Rain"  -> "rain"
    [] w = "The"   -> "the"
    [] w = "Rainy" -> "rainy"
    [] OTHER       -> w

\* the pairs <<w, t>>, w a mood word and t a lower-cased query word of the
\* model, with w a proper substring of t
ProperSubstrings == { <<"fight", "fights">> }

IsSubstring(w, t) == w = t \/ <<w, t>> \in ProperSubstrings

\* word in query_lower: a word without blanks is inside the query exactly
\* when it is inside one of the query's words
InQuery(w, query) == \E i \in 1..Len(query) : IsSubstring(w, Lower(query[i]))

RECURSIVE ExpandFrom(_, _)
ExpandFrom(k, query) ==
  IF k > Len(MOOD_KEYWORDS) THEN <<>>
  ELSE (IF \E j \in 1..Len(MOOD_KEYWORDS[k].mood) :
             InQuery(MOOD_KEYWORDS[k].mood[j], query)
        THEN Flatten(MOOD_KEYWORDS[k].keywords)
        ELSE <<>>) \o ExpandFrom(k + 1, query)

\* ' '.join([query] + the keywords of every matching mood)
expand_mood_query(query) == query \o ExpandFrom(1, query)

(***************************************************************************)
(* AnimeData and to_text.                                                  *)
(***************************************************************************)
AnimeData(anime) ==
  [id          |-> Get(anime, "id", 0),
   title       |-> Get(anime, "title", <<>>),
   description |-> Get(anime, "description", <<>>),
   genres      |-> Get(anime, "genres", <<>>),
   tags        |-> Get(anime, "tags", <<>>),
   score       |-> Get(anime, "score", 0),
   popularity  |-> Get(anime, "popularity", 0)]

to_text(a) == a.title \o a.description \o Flatten(a.genres) \o Flatten(a.tags)

(***************************************************************************)
(* TfidfVectorizer(stop_words='english', ngram_range=(1, 2)).              *)
(***************************************************************************)
\* the words of scikit-learn's English stop list that occur in the model
StopWords == {"the", "of", "and"}

\* token_pattern \w\w+ splits a word at its hyphen
WordTokens(w) ==
  CASE w = "sci-fi"        -> <<"sci", "fi">>
    [] w = "mind-bending"  -> <<"mind", "bending">>
    [] w = "action-packed" -> <<"action", "packed">>
    [] w = "high-budget"   -> <<"high", "budget">>
    [] OTHER               -> <<Lower(w)>>

RECURSIVE Tokens(_)
\* lower-case, tokenise, drop stop words
Tokens(text) ==
  IF text = <<>> THEN <<>>
  ELSE SelectSeq(WordTokens(Head(text)), LAMBDA t : t \notin StopWords)
         \o Tokens(Tail(text))

\* the unigrams and bigrams of a text, as a sequence (with repetitions)
NGrams(text) ==
  LET toks == Tokens(text)
  IN  [i \in 1..Len(toks) |-> <<toks[i]>>]
        \o [i \in 1..(IF Len(toks) = 0 THEN 0 ELSE Len(toks) - 1)
              |-> <<toks[i], toks[i + 1]>>]

\* the number of times feature f occurs among the n-grams g of a text
Tf(f, g) == Cardinality({i \in 1..Len(g) : g[i] = f})

\* alphabetical order of the tokens that occur in the model's records
TokenOrder ==
  <<"action", "calm", "drift", "life", "mecha", "quiet", "rain", "slice">>

TokenRank(t) == CHOOSE i \in 1..Len(TokenOrder) : TokenOrder[i] = t

\* string order of two features ("drift" < "drift action" < "mecha")
FeatureLess(f, g) ==
  \/ TokenRank(f[1]) < TokenRank(g[1])
  \/ /\ f[1] = g[1]
     /\ \/ Len(f) < Len(g)
        \/ Len(f) = 2 /\ Len(g) = 2 /\ TokenRank(f[2]) < TokenRank(g[2])

RECURSIVE SortFeatures(_)
\* vocabulary_ numbers the features in sorted order
SortFeatures(fs) ==
  IF fs = {} THEN <<>>
  ELSE LET m == CHOOSE f \in fs : \A g \in fs \ {f} : FeatureLess(f, g)
       IN  <<m>> \o SortFeatures(fs \ {m})

\* round(10 * ln k), k = 1..40
LnTable ==
  <<0, 7, 11, 14, 16, 18, 19, 21, 22, 23, 24, 25, 26, 26, 27, 28, 28, 29, 29,
    30, 30, 31, 31, 32, 32, 33, 33, 33, 34, 34, 34, 35, 35, 35, 36, 36, 36, 36,
    37, 37>>

\* smoothed idf, ln((1 + n) / (1 + df)) + 1, in tenths
Idf(n, df) == 10 + LnTable[1 + n] - LnTable[1 + df]

\* The fitted vectorizer for a corpus of texts: the sorted vocabulary and
\* the idf of each column.
FitVectorizer(corpus) ==
  LET grams == [i \in 1..Len(corpus) |-> SeqRange(NGrams(corpus[i]))]
      vocab == SortFeatures(UNION {grams[i] : i \in 1..Len(corpus)})
      Df(f) == Cardinality({i \in 1..Len(corpus) : f \in grams[i]})
  IN  [fitted     |-> TRUE,
       vocabulary |-> vocab,
       idf        |-> [c \in 1..Len(vocab) |-> Idf(Len(corpus), Df(vocab[c]))]]

\* vectorizer.transform([text])[0]: features outside the vocabulary are
\* dropped.  Rows are left unnormalised; cosine_similarity normalises.
Transform(vec, text) ==
  LET g == NGrams(text)
  IN  [c \in 1..Len(vec.vocabulary) |-> Tf(vec.vocabulary[c], g) * vec.idf[c]]

Unfitted == [fitted |-> FALSE, vocabulary |-> <<>>, idf |-> <<>>]

(***************************************************************************)
(* cosine_similarity, in thousandths.                                      *)
(***************************************************************************)
RECURSIVE SumUpTo(_, _)
SumUpTo(f, n) == IF n = 0 THEN 0 ELSE f[n] + SumUpTo(f, n - 1)

Dot(u, v) == SumUpTo([c \in 1..Len(u) |-> u[c] * v[c]], Len(u))

RECURSIVE SqrtBetween(_, _, _)
\* the integer square root of n, known to lie in lo..hi
SqrtBetween(n, lo, hi) ==
  IF lo = hi THEN lo
  ELSE LET mid == (lo + hi + 1) \div 2
       IN  IF mid * mid <= n THEN SqrtBetween(n, mid, hi)
           ELSE SqrtBetween(n, lo, mid - 1)

ISqrt(n) == SqrtBetween(n, 0, Min(n, 46340))

\* the cosine of a zero vector with anything is 0
Cosine(u, v) ==
  LET uu == Dot(u, u)
      vv == Dot(v, v)
  IN  IF uu = 0 \/ vv = 0 THEN 0 ELSE (1000 * Dot(u, v)) \div ISqrt(uu * vv)

(***************************************************************************)
(* The records and queries the model's clients send.                       *)
(***************************************************************************)
Catalog ==
  { [id |-> 1, title |-> <<"Drift">>, genres |-> <<<<"action">>>>,
     tags |-> <<<<"mecha">>>>, score |-> 8],
    [id |-> 2, title |-> <<"Quiet", "Rain">>,
     genres |-> <<<<"slice", "of", "life">>>>, tags |-> <<<<"calm">>>>,
     score |-> 7],
    \* the text of record 1 under another id
    [id |-> 3, title |-> <<"Drift">>, genres |-> <<<<"action">>>>,
     tags |-> <<<<"mecha">>>>, score |-> 5] }

\* a record of stop words only, every other field left to its default
StopWordsOnly == [title |-> <<"The">>]

\* lists of distinct catalogue records, at most MaxLen long
SmallLists ==
  UNION { {s \in [1..n -> Catalog] : \A i, j \in 1..n : i # j => s[i] # s[j]}
          : n \in 0..MaxLen }

\* one long list with ids 101, 102, ... and two alternating texts
BigList ==
  [i \in 1..BigLen |->
     IF i % 2 = 1
     THEN [id |-> 100 + i, title |-> <<"Drift">>, tags |-> <<<<"mecha">>>>,
           score |-> 8]
     ELSE [id |-> 100 + i, title |-> <<"Quiet", "Rain">>,
           tags |-> <<<<"calm">>>>, score |-> 8]]

\* the lists posted where persistence and clustering are exercised
TrainLists ==
  {s \in SmallLists : Len(s) <= 1} \cup {<<StopWordsOnly>>, BigList}

\* the lists posted to the /train handler: nothing, record 1 or record 2
ServerLists == {s \in SmallLists : Len(s) <= 1 /\ \A i \in 1..Len(s) :
                                                  Get(s[i], "id", 0) \in {1, 2}}

\* the queries posted to the /recommend/mood handler
ServerQueries == { <<"Rainy", "afternoon">>, <<"Drift">> }

Queries == { <<>>, <<"Rainy", "afternoon">>, <<"Drift">>, <<"fights">> }

Limits == 1..MaxLimit

MinScores == {0, 7}

AnimeIds == {1, 2, 3, 9}

(***************************************************************************)
(* The engine.                                                             *)
(***************************************************************************)
\* what the last call did: its name, how it ended, what it returned and the
\* arguments it was given
Outcome(op, outcome, results, args) ==
  [op |-> op, outcome |-> outcome, results |-> results, args |-> args]

Ended(op, outcome) == Outcome(op, outcome, <<>>, None)

Idle == [pc |-> "idle"]

\* AnimeRecommendationEngine.__init__, and no artifact at model_path
Init ==
  /\ anime_data = <<>>
  /\ vectorizer = Unfitted
  /\ tfidf_matrix = None
  /\ kmeans = None
  /\ disk = None
  /\ last = Ended("init", "ok")
  /\ trainer = Idle
  /\ reader = Idle

LoadedData(anime_list) == [i \in 1..Len(anime_list) |-> AnimeData(anime_list[i])]

load_anime_data(anime_list) ==
  /\ anime_data' = LoadedData(anime_list)
  /\ last' = Ended("load_anime_data", "ok")
  /\ UNCHANGED <<vectorizer, tfidf_matrix, kmeans, disk, trainer, reader>>

\* corpus = [anime.to_text() for anime in self.anime_data]
Corpus(data) == [i \in 1..Len(data) |-> to_text(data[i])]

\* vectorizer.fit_transform(corpus): the vectorizer as fitted, and the
\* matrix it returns, row i from corpus[i]
FitTransform(corpus) ==
  LET vec == FitVectorizer(corpus)
  IN  [vectorizer |-> vec,
       matrix |-> [rows |-> [i \in 1..Len(corpus) |-> Transform(vec, corpus[i])]]]

\* n_clusters = min(50, len(self.anime_data) // 10)
NClusters(data) == Min(50, Len(data) \div 10)

\* KMeans(n_clusters=n_clusters, random_state=42), fitted
FittedKMeans(n_clusters) == [n_clusters |-> n_clusters]

\* kmeans after the clustering step of train()
TrainedKMeans(data, old) ==
  IF NClusters(data) > 1 THEN FittedKMeans(NClusters(data)) ELSE old

\* train() raises: no records, or fit_transform finds an empty vocabulary
\* (ValueError, raised by scikit-learn before it changes the vectorizer)
TrainRaises(data) ==
  \/ data = <<>>
  \/ \A i \in 1..Len(data) : NGrams(to_text(data[i])) = <<>>

train ==
  /\ IF TrainRaises(anime_data)
     THEN /\ last' = Ended("train", "ValueError")
          /\ UNCHANGED <<vectorizer, tfidf_matrix, kmeans>>
     ELSE LET fit == FitTransform(Corpus(anime_data))
          IN  /\ vectorizer' = fit.vectorizer
              /\ tfidf_matrix' = fit.matrix
              /\ kmeans' = TrainedKMeans(anime_data, kmeans)
              /\ last' = Ended("train", "ok")
  /\ UNCHANGED <<anime_data, disk, trainer, reader>>

(***************************************************************************)
(* Persistence.  The artifact is absent (None) or a file that unpickles    *)
(* (readable) to a dictionary, or does not.                                *)
(***************************************************************************)
ModelKeys == <<"vectorizer", "tfidf_matrix", "kmeans", "anime_data">>

ModelData(vec, matrix, km, data) ==
  [vectorizer |-> vec, tfidf_matrix |-> matrix, kmeans |-> km,
   anime_data |-> data]

save_model ==
  /\ disk' = [readable |-> TRUE,
              data |-> ModelData(vectorizer, tfidf_matrix, kmeans, anime_data)]
  /\ last' = Ended("save_model", "ok")
  /\ UNCHANGED <<anime_data, vectorizer, tfidf_matrix, kmeans, trainer, reader>>

\* The file is damaged outside the program: it no longer unpickles, or it
\* unpickles to a dictionary without one of the keys.
DamageArtifact ==
  /\ disk # None
  /\ disk.readable
  /\ DOMAIN disk.data = SeqRange(ModelKeys)
  /\ \/ disk' = [disk EXCEPT !.readable = FALSE]
     \/ \E k \in SeqRange(ModelKeys) :
          disk' = [disk EXCEPT
                     !.data = [j \in SeqRange(ModelKeys) \ {k} |-> disk.data[j]]]
  /\ last' = Ended("damage", "ok")
  /\ UNCHANGED <<anime_data, vectorizer, tfidf_matrix, kmeans, trainer, reader>>

\* model_data[ModelKeys[n]] is read without a KeyError: the assignments of
\* load_model run in the order of ModelKeys and stop at the first KeyError
Assigned(model_data, n) == \A m \in 1..n : ModelKeys[m] \in DOMAIN model_data

\* the value of an attribute after load_model's assignment n
LoadedAttr(model_data, n, old) ==
  IF Assigned(model_data, n) THEN model_data[ModelKeys[n]] ELSE old

load_model ==
  IF disk = None
  THEN /\ last' = Ended("load_model", "False")
       /\ UNCHANGED <<anime_data, vectorizer, tfidf_matrix, kmeans, disk,
                      trainer, reader>>
  ELSE IF ~disk.readable
  THEN /\ last' = Ended("load_model", "False")
       /\ UNCHANGED <<anime_data, vectorizer, tfidf_matrix, kmeans, disk,
                      trainer, reader>>
  ELSE /\ vectorizer' = LoadedAttr(disk.data, 1, vectorizer)
       /\ tfidf_matrix' = LoadedAttr(disk.data, 2, tfidf_matrix)
       /\ kmeans' = LoadedAttr(disk.data, 3, kmeans)
       /\ anime_data' = LoadedAttr(disk.data, 4, anime_data)
       /\ last' = Ended("load_model",
                        IF Assigned(disk.data, 4) THEN "True" ELSE "False")
       /\ UNCHANGED <<disk, trainer, reader>>

(***************************************************************************)
(* Ranking.                                                                *)
(***************************************************************************)
\* cosine_similarity(vector, matrix).flatten()
Similarities(vector, matrix) ==
  [i \in 1..Len(matrix.rows) |-> Cosine(vector, matrix.rows[i])]

\* cosine_similarity raises ValueError when the column counts differ
Incompatible(vector, matrix) == Len(vector) # Len(matrix.rows[1])

\* similarities.argsort()[::-1] lists the rows by descending similarity.
\* NumPy's default sort is not stable, so the order among rows of equal
\* similarity depends on the build: the next row of the order is any row of
\* largest similarity among those not yet listed.
\* a ranking without the sort: any row comes next
NextRowsUnsorted(sims, remaining) == remaining

NextRows(sims, remaining) ==
  {i \in remaining : \A j \in remaining : sims[j] <= sims[i]}

RECURSIVE TopIndices(_, _, _)
\* the possible values of similarities.argsort()[::-1][:k]
TopIndices(sims, remaining, k) ==
  IF k = 0 \/ remaining = {} THEN {<<>>}
  ELSE UNION { {<<i>> \o rest : rest \in TopIndices(sims, remaining \ {i}, k - 1)}
               : i \in NextRows(sims, remaining) }

Ok(results) == [outcome |-> "ok", results |-> results]

Raised(error) == [outcome |-> error, results |-> <<>>]

\* anime.score >= min_score
Accepted(anime, min_score) == anime.score >= min_score

\* the loop left one turn late
FullOneLate(results, limit) == Len(results) > limit

\* len(results) >= limit
Full(results, limit) == Len(results) >= limit

MoodResult(anime, similarity) ==
  [id |-> anime.id, title |-> anime.title, genres |-> anime.genres,
   score |-> anime.score, similarity |-> similarity,
   description |-> anime.description]

RECURSIVE MoodLoop(_, _, _, _, _, _)
\* for idx in top_indices: ...  The outcomes of the loop over every order
\* argsort may produce, rows `remaining` not yet visited.
MoodLoop(data, sims, remaining, results, limit, min_score) ==
  IF remaining = {} THEN {Ok(results)}
  ELSE UNION {
         IF idx > Len(data) THEN {Raised("IndexError")}
         ELSE IF Accepted(data[idx], min_score)
         THEN LET more == Append(results, MoodResult(data[idx], sims[idx]))
              IN  IF Full(more, limit) THEN {Ok(more)}
                  ELSE MoodLoop(data, sims, remaining \ {idx}, more, limit,
                                min_score)
         ELSE MoodLoop(data, sims, remaining \ {idx}, results, limit, min_score)
         : idx \in NextRows(sims, remaining) }

\* the outcomes of search_by_mood on an engine with these attributes
SearchByMood(data, vec, matrix, query, limit, min_score) ==
  IF matrix = None THEN {Raised("ValueError")}
  ELSE IF ~vec.fitted THEN {Raised("NotFittedError")}
  ELSE LET query_vector == Transform(vec, expand_mood_query(query))
       IN  IF Incompatible(query_vector, matrix) THEN {Raised("ValueError")}
           ELSE LET sims == Similarities(query_vector, matrix)
                IN  MoodLoop(data, sims, 1..Len(sims), <<>>, limit, min_score)

search_by_mood(query, limit, min_score) ==
  /\ \E out \in SearchByMood(anime_data, vectorizer, tfidf_matrix, query,
                             limit, min_score) :
       last' = Outcome("search_by_mood", out.outcome, out.results,
                       [limit |-> limit, min_score |-> min_score])
  /\ UNCHANGED <<anime_data, vectorizer, tfidf_matrix, kmeans, disk, trainer,
                 reader>>

\* the index of the first record with this id, 0 for None
AnimeIdx(data, anime_id) ==
  IF \E i \in 1..Len(data) : data[i].id = anime_id
  THEN CHOOSE i \in 1..Len(data) :
         /\ data[i].id = anime_id
         /\ \A j \in 1..(i - 1) : data[j].id # anime_id
  ELSE 0

SimilarResult(anime, similarity) ==
  [id |-> anime.id, title |-> anime.title, genres |-> anime.genres,
   score |-> anime.score, similarity |-> similarity]

\* argsort()[::-1][1:limit+1]: the order without its first entry
ExcludingSelf(order) == SubSeq(order, 2, Len(order))

\* for idx in top_indices: results.append(...)
SimilarLoop(data, sims, top_indices) ==
  IF \E n \in 1..Len(top_indices) : top_indices[n] > Len(data)
  THEN Raised("IndexError")
  ELSE Ok([n \in 1..Len(top_indices) |->
             SimilarResult(data[top_indices[n]], sims[top_indices[n]])])

\* the outcomes of find_similar_anime on an engine with these attributes
FindSimilar(data, matrix, anime_id, limit) ==
  IF matrix = None THEN {Raised("ValueError")}
  ELSE LET anime_idx == AnimeIdx(data, anime_id)
       IN  IF anime_idx = 0 THEN {Ok(<<>>)}
           ELSE IF anime_idx > Len(matrix.rows) THEN {Raised("IndexError")}
           ELSE LET sims == Similarities(matrix.rows[anime_idx], matrix)
                IN  { SimilarLoop(data, sims, ExcludingSelf(order))
                      : order \in TopIndices(sims, 1..Len(sims), limit + 1) }

find_similar_anime(anime_id, limit) ==
  /\ \E out \in FindSimilar(anime_data, tfidf_matrix, anime_id, limit) :
       last' = Outcome("find_similar_anime", out.outcome, out.results,
                       [anime_id |-> anime_id, limit |-> limit])
  /\ UNCHANGED <<anime_data, vectorizer, tfidf_matrix, kmeans, disk, trainer,
                 reader>>

(***************************************************************************)
(* The engine used by one caller at a time: training and ranking.          *)
(***************************************************************************)
Next ==
  \/ \E anime_list \in SmallLists : load_anime_data(anime_list)
  \/ train
  \/ \E query \in Queries, limit \in Limits, min_score \in MinScores :
       search_by_mood(query, limit, min_score)
  \/ \E anime_id \in AnimeIds, limit \in Limits :
       find_similar_anime(anime_id, limit)

Spec == Init /\ [][Next]_vars

(***************************************************************************)
(* The engine used by one caller at a time: training, clustering and the   *)
(* artifact.                                                               *)
(***************************************************************************)
TrainNext ==
  \/ \E anime_list \in TrainLists : load_anime_data(anime_list)
  \/ train
  \/ save_model
  \/ DamageArtifact
  \/ load_model

TrainSpec == Init /\ [][TrainNext]_vars

(***************************************************************************)
(* party_match.  A watchlist enters through set(...), so the model draws   *)
(* the sets; candidate n of other_users has user_id n.  min_overlap and    *)
(* the Jaccard values are fractions num/den with den > 0.                  *)
(***************************************************************************)
WatchlistSets == SUBSET (1..MaxWatchId)

OtherUsers ==
  UNION { { [n \in 1..k |-> [user_id |-> n, watchlist |-> w[n]]]
            : w \in [1..k -> WatchlistSets] }
          : k \in 0..MaxCandidates }

Fraction(num, den) == [num |-> num, den |-> den]

MinOverlaps == {Fraction(0, 1), Fraction(3, 10), Fraction(1, 2), Fraction(1, 1)}

\* a >= b
AtLeast(a, b) == a.num * b.den >= b.num * a.den

\* if union > 0: similarity = intersection / union;
\* if similarity >= min_overlap: ...
IsMatch(intersection, union, min_overlap) ==
  /\ union > 0
  /\ AtLeast(Fraction(intersection, union), min_overlap)

RECURSIVE Matches(_, _, _)
\* the loop over other_users
Matches(user_set, other_users, min_overlap) ==
  IF other_users = <<>> THEN <<>>
  ELSE LET other == Head(other_users)
           other_set == other.watchlist
           intersection == Cardinality(user_set \cap other_set)
           union == Cardinality(user_set \cup other_set)
           rest == Matches(user_set, Tail(other_users), min_overlap)
       IN  IF IsMatch(intersection, union, min_overlap)
           THEN << [user_id |-> other.user_id,
                    compatibility |-> Fraction(intersection, union),
                    shared_anime |-> user_set \cap other_set,
                    shared_count |-> intersection] >> \o rest
           ELSE rest

\* a sort that reverses equal matches (sorting ascending, then reversing)
SortedPlaceReversed(sorted, m) ==
  Cardinality({i \in 1..Len(sorted) :
                 ~AtLeast(m.compatibility, sorted[i].compatibility)})

\* where list.sort(key=compatibility, reverse=True) puts match m among the
\* matches before it: behind every match that is at least as compatible
\* (the sort is stable, also with reverse=True)
SortedPlace(sorted, m) ==
  Cardinality({i \in 1..Len(sorted) :
                 AtLeast(sorted[i].compatibility, m.compatibility)})

RECURSIVE SortMatches(_)
\* matches.sort(key=lambda x: x['compatibility'], reverse=True)
SortMatches(matches) ==
  IF matches = <<>> THEN <<>>
  ELSE LET n == Len(matches)
           sorted == SortMatches(SubSeq(matches, 1, n - 1))
           k == SortedPlace(sorted, matches[n])
       IN  SubSeq(sorted, 1, k) \o <<matches[n]>>
             \o SubSeq(sorted, k + 1, Len(sorted))

party_match(user_set, other_users, min_overlap) ==
  /\ last' = Outcome("party_match", "ok",
                     SortMatches(Matches(user_set, other_users, min_overlap)),
                     [user_set |-> user_set, other_users |-> other_users,
                      min_overlap |-> min_overlap])
  /\ UNCHANGED <<anime_data, vectorizer, tfidf_matrix, kmeans, disk, trainer,
                 reader>>

\* party_match reads nothing of the engine: it is a function of its
\* arguments, which the initial states draw and one call then uses.
PartyInit ==
  /\ anime_data = <<>>
  /\ vectorizer = Unfitted
  /\ tfidf_matrix = None
  /\ kmeans = None
  /\ disk = None
  /\ trainer = Idle
  /\ reader = Idle
  /\ \E user_set \in WatchlistSets, other_users \in OtherUsers,
        min_overlap \in MinOverlaps :
       last = Outcome("party_match", "called", <<>>,
                      [user_set |-> user_set, other_users |-> other_users,
                       min_overlap |-> min_overlap])

PartyNext ==
  /\ last.outcome = "called"
  /\ party_match(last.args.user_set, last.args.other_users,
                 last.args.min_overlap)

PartySpec == PartyInit /\ [][PartyNext]_vars

(***************************************************************************)
(* The Flask handlers on the global engine.  The development server        *)
(* serves each request in a thread of its own and the engine has no lock,  *)
(* so a /train request (trainer) and a /recommend/mood request (reader)    *)
(* interleave between their reads and writes of the engine's attributes.   *)
(***************************************************************************)
EnginePair == [anime_data |-> anime_data, tfidf_matrix |-> tfidf_matrix]

\* the pair the engine held when no /train request was under way
SettledPair == IF trainer.pc = "idle" THEN EnginePair ELSE trainer.before

\* the pair a /train request with this list leaves when it runs alone
\* from an engine holding `before`
AfterPair(anime_list, before) ==
  LET data == LoadedData(anime_list)
  IN  [anime_data |-> data,
       tfidf_matrix |-> IF TrainRaises(data) THEN before.tfidf_matrix
                        ELSE FitTransform(Corpus(data)).matrix]

\* the reader's record of the whole pairs of its time: the pairs from
\* before and from after every /train request that runs while it does
Settled(pair) ==
  IF reader.pc = "idle" THEN reader
  ELSE [reader EXCEPT !.settled = @ \cup {pair}]

\* a request begins: train_model reads anime_list from the body
TrainerStart(anime_list) ==
  /\ trainer.pc = "idle"
  /\ trainer' = [pc |-> "load_anime_data", anime_list |-> anime_list,
                 before |-> EnginePair]
  /\ reader' = Settled(AfterPair(anime_list, EnginePair))
  /\ UNCHANGED <<anime_data, vectorizer, tfidf_matrix, kmeans, disk, last>>

\* engine.load_anime_data(anime_list)
TrainerLoad ==
  /\ trainer.pc = "load_anime_data"
  /\ anime_data' = LoadedData(trainer.anime_list)
  /\ trainer' = [trainer EXCEPT !.pc = "train"]
  /\ UNCHANGED <<vectorizer, tfidf_matrix, kmeans, disk, last, reader>>

\* engine.train() up to the end of fit_transform, which refits
\* self.vectorizer in place; an exception is caught by the handler
TrainerFit ==
  /\ trainer.pc = "train"
  /\ IF TrainRaises(anime_data)
     THEN /\ trainer' = [trainer EXCEPT !.pc = "raised"]
          /\ UNCHANGED vectorizer
     ELSE /\ vectorizer' = FitTransform(Corpus(anime_data)).vectorizer
          /\ trainer' = [trainer EXCEPT !.pc = "assign"]
  /\ UNCHANGED <<anime_data, tfidf_matrix, kmeans, disk, last, reader>>

\* self.tfidf_matrix = the matrix fit_transform returned
TrainerAssign ==
  /\ trainer.pc = "assign"
  /\ tfidf_matrix' = FitTransform(Corpus(anime_data)).matrix
  /\ trainer' = [trainer EXCEPT !.pc = "cluster"]
  /\ UNCHANGED <<anime_data, vectorizer, kmeans, disk, last, reader>>

\* the clustering step of train()
TrainerCluster ==
  /\ trainer.pc = "cluster"
  /\ kmeans' = TrainedKMeans(anime_data, kmeans)
  /\ trainer' = [trainer EXCEPT !.pc = "save_model"]
  /\ UNCHANGED <<anime_data, vectorizer, tfidf_matrix, disk, last, reader>>

\* engine.save_model()
TrainerSave ==
  /\ trainer.pc = "save_model"
  /\ disk' = [readable |-> TRUE,
              data |-> ModelData(vectorizer, tfidf_matrix, kmeans, anime_data)]
  /\ trainer' = [trainer EXCEPT !.pc = "return"]
  /\ UNCHANGED <<anime_data, vectorizer, tfidf_matrix, kmeans, last, reader>>

\* the response, 200 after save_model and 500 after an exception
TrainerRespond ==
  /\ trainer.pc \in {"return", "raised"}
  /\ trainer' = Idle
  /\ UNCHANGED <<anime_data, vectorizer, tfidf_matrix, kmeans, disk, last,
                 reader>>

\* a request begins: recommend_by_mood reads query and limit from the body
\* (min_score is left to its default)
ReaderStart(query, limit) ==
  /\ reader.pc = "idle"
  /\ reader' = [pc |-> "check", query |-> query, limit |-> limit,
                min_score |-> 0, query_vector |-> <<>>, matrix |-> None,
                similarities |-> <<>>, remaining |-> {}, results |-> <<>>,
                seen |-> {},
                settled |-> {SettledPair} \cup
                            (IF trainer.pc = "idle" THEN {}
                             ELSE {AfterPair(trainer.anime_list,
                                             trainer.before)})]
  /\ UNCHANGED <<anime_data, vectorizer, tfidf_matrix, kmeans, disk, last,
                 trainer>>

\* an exception is caught by the handler
ReaderFails(error) == reader' = [reader EXCEPT !.pc = "raised"]

\* if self.tfidf_matrix is None: raise
ReaderCheck ==
  /\ reader.pc = "check"
  /\ IF tfidf_matrix = None
     THEN ReaderFails("ValueError")
     ELSE reader' = [reader EXCEPT !.pc = "transform"]
  /\ UNCHANGED <<anime_data, vectorizer, tfidf_matrix, kmeans, disk, last,
                 trainer>>

\* query_vector = self.vectorizer.transform([expanded_query])
ReaderTransform ==
  /\ reader.pc = "transform"
  /\ IF ~vectorizer.fitted
     THEN ReaderFails("NotFittedError")
     ELSE reader' = [reader EXCEPT
                       !.pc = "similarity",
                       !.query_vector =
                          Transform(vectorizer, expand_mood_query(reader.query))]
  /\ UNCHANGED <<anime_data, vectorizer, tfidf_matrix, kmeans, disk, last,
                 trainer>>

\* similarities = cosine_similarity(query_vector, self.tfidf_matrix)
ReaderSimilarity ==
  /\ reader.pc = "similarity"
  /\ IF Incompatible(reader.query_vector, tfidf_matrix)
     THEN ReaderFails("ValueError")
     ELSE LET sims == Similarities(reader.query_vector, tfidf_matrix)
          IN  reader' = [reader EXCEPT !.pc = "loop",
                                       !.matrix = tfidf_matrix,
                                       !.similarities = sims,
                                       !.remaining = 1..Len(sims)]
  /\ UNCHANGED <<anime_data, vectorizer, tfidf_matrix, kmeans, disk, last,
                 trainer>>

\* one turn of the loop: anime = self.anime_data[idx] reads the attribute
ReaderLoop ==
  /\ reader.pc = "loop"
  /\ \E idx \in NextRows(reader.similarities, reader.remaining) :
       LET saw == reader.seen \cup
                    {[anime_data |-> anime_data, tfidf_matrix |-> reader.matrix]}
           more == IF idx <= Len(anime_data)
                      /\ Accepted(anime_data[idx], reader.min_score)
                   THEN Append(reader.results,
                               MoodResult(anime_data[idx],
                                          reader.similarities[idx]))
                   ELSE reader.results
           left == reader.remaining \ {idx}
       IN  reader' = [reader EXCEPT
                        !.seen = saw,
                        !.results = more,
                        !.remaining = left,
                        !.pc = IF idx > Len(anime_data) THEN "raised"
                               ELSE IF Full(more, reader.limit) \/ left = {}
                               THEN "return"
                               ELSE "loop"]
  /\ UNCHANGED <<anime_data, vectorizer, tfidf_matrix, kmeans, disk, last,
                 trainer>>

\* the response: reader.results with a 200, or the 500 of an exception
ReaderRespond ==
  /\ reader.pc \in {"return", "raised"}
  /\ reader' = Idle
  /\ UNCHANGED <<anime_data, vectorizer, tfidf_matrix, kmeans, disk, last,
                 trainer>>

ServerNext ==
  \/ \E anime_list \in ServerLists : TrainerStart(anime_list)
  \/ TrainerLoad
  \/ TrainerFit
  \/ TrainerAssign
  \/ TrainerCluster
  \/ TrainerSave
  \/ TrainerRespond
  \/ \E query \in ServerQueries, limit \in Limits : ReaderStart(query, limit)
  \/ ReaderCheck
  \/ ReaderTransform
  \/ ReaderSimilarity
  \/ ReaderLoop
  \/ ReaderRespond

ServerSpec == Init /\ [][ServerNext]_vars

(***************************************************************************)
(* Properties.                                                             *)
(***************************************************************************)
Ranked == last.op \in {"search_by_mood", "find_similar_anime"}

Returned(op) == last.op = op /\ last.outcome = "ok"

\* the matrix is the one fitted from the records the engine holds
PositionsCorrespond ==
  /\ Len(tfidf_matrix.rows) = Len(anime_data)
  /\ tfidf_matrix = FitTransform(Corpus(anime_data)).matrix

\* C1: whenever tfidf_matrix is set, it has one row per record of anime_data
\* and row i is the vector fitted from anime_data[i].
C1_PositionalCorrespondence == tfidf_matrix # None => PositionsCorrespond

\* C2: every pair (anime_data, tfidf_matrix) read by a /recommend/mood
\* request is the whole pair from before or from after a /train request
\* that runs while it does, never the records of one with the matrix of
\* the other.
C2_AtomicRetrain == reader.pc # "idle" => reader.seen \subseteq reader.settled

\* C3: a ranking call raises the untrained-state ValueError exactly when no
\* matrix has been fitted, and returns without raising once one has been.
C3_RankingFailsOnlyWhenUntrained ==
  Ranked => last.outcome = (IF tfidf_matrix = None THEN "ValueError" ELSE "ok")

\* C4: after train() has failed on an engine without records, tfidf_matrix
\* is unset.
C4_FailedTrainLeavesNoMatrix ==
  (last.op = "train" /\ last.outcome = "ValueError" /\ anime_data = <<>>)
    => tfidf_matrix = None

\* C5: on an engine trained on the records it holds, find_similar_anime
\* never returns the record asked about, and returns nothing for an id that
\* no record has.
C5_SimilarExcludesSelf ==
  (Returned("find_similar_anime") /\ PositionsCorrespond) =>
    /\ \A n \in 1..Len(last.results) : last.results[n].id # last.args.anime_id
    /\ AnimeIdx(anime_data, last.args.anime_id) = 0 => last.results = <<>>

\* the records of the corpus a search with this min_score may return
Eligible(min_score) ==
  {i \in 1..Len(anime_data) : anime_data[i].score >= min_score}

\* C6: search_by_mood returns at most limit results, each with
\* score >= min_score, and on a matrix with one row per record exactly
\* min(limit, number of records with score >= min_score) of them.
C6_SearchLimitAndFilter ==
  Returned("search_by_mood") =>
    /\ Len(last.results) <= last.args.limit
    /\ \A n \in 1..Len(last.results) :
         last.results[n].score >= last.args.min_score
    /\ Len(tfidf_matrix.rows) = Len(anime_data) =>
         Len(last.results) =
           Min(last.args.limit, Cardinality(Eligible(last.args.min_score)))

\* a search returned, the limit was reached, and a record was filtered out
C6_Witness ==
  /\ Returned("search_by_mood")
  /\ Len(tfidf_matrix.rows) = Len(anime_data)
  /\ Len(last.results) = last.args.limit
  /\ Cardinality(Eligible(last.args.min_score)) < Len(anime_data)

Kept(user_set, other_users, min_overlap) ==
  {n \in 1..Len(other_users) :
     LET i == Cardinality(user_set \cap other_users[n].watchlist)
         u == Cardinality(user_set \cup other_users[n].watchlist)
     IN  u > 0 /\ i * min_overlap.den >= min_overlap.num * u}

\* C8: party_match returns exactly the candidates with a non-empty union and
\* a Jaccard value >= min_overlap, each once, with that value, the
\* intersection and its size, by descending compatibility and, among equal
\* compatibilities, in input order.
C8_PartyMatch ==
  Returned("party_match") =>
    LET a == last.args
        r == last.results
    IN  /\ {r[m].user_id : m \in 1..Len(r)}
             = Kept(a.user_set, a.other_users, a.min_overlap)
        /\ Len(r) = Cardinality(Kept(a.user_set, a.other_users, a.min_overlap))
        /\ \A m \in 1..Len(r) :
             LET w == a.other_users[r[m].user_id].watchlist
             IN  /\ r[m].shared_anime = a.user_set \cap w
                 /\ r[m].shared_count = Cardinality(a.user_set \cap w)
                 /\ r[m].compatibility.num * Cardinality(a.user_set \cup w)
                      = Cardinality(a.user_set \cap w) * r[m].compatibility.den
        /\ \A m, n \in 1..Len(r) :
             m < n =>
               LET cm == r[m].compatibility
                   cn == r[n].compatibility
               IN  \/ cm.num * cn.den > cn.num * cm.den
                   \/ /\ cm.num * cn.den = cn.num * cm.den
                      /\ r[m].user_id < r[n].user_id

\* two candidates were kept with equal compatibility, above a min_overlap
\* that is not zero
C8_Witness ==
  /\ Returned("party_match")
  /\ last.args.min_overlap.num > 0
  /\ Len(last.results) = 2
  /\ AtLeast(last.results[2].compatibility, last.results[1].compatibility)

\* the number of clusters of the engine's cluster model
ClusterCount == IF kmeans = None THEN 0 ELSE kmeans.n_clusters

\* C9: after a successful train() on n records the engine has
\* min(50, n // 10) clusters if that is more than 1, and none otherwise.
C9_ClustersAfterTrain ==
  (last.op = "train" /\ last.outcome = "ok") =>
    ClusterCount = (IF Min(50, Len(anime_data) \div 10) > 1
                    THEN Min(50, Len(anime_data) \div 10)
                    ELSE 0)

\* C10: a load_model that returns False leaves vectorizer, tfidf_matrix,
\* kmeans and anime_data as they were.
C10_FailedLoadChangesNothing ==
  [][(last'.op = "load_model" /\ last'.outcome = "False")
       => UNCHANGED <<vectorizer, tfidf_matrix, kmeans, anime_data>>]_vars

====
